---------------------------- MODULE Spec2Model ----------------------------
(***************************************************************************)
(* Model of github.com/andrewarchi/browser:                                *)
(*   - extensions/historytrends: the analysis-export visit codec           *)
(*     (checkURL, parseTimes, Reader.readAnalysisVisit,                    *)
(*     Writer.writeAnalysisVisit);                                         *)
(*   - jsonutil: Decode / DecodeFile and their trailing-text loop.         *)
(*                                                                         *)
(* Strings handled by the Go standard library (URLs, decimal numbers,      *)
(* civil-time strings) are modelled by what the library makes of them:     *)
(* a raw URL is a string with a table of url.Parse's results, a time       *)
(* field is a record carrying the value its text denotes and the syntax    *)
(* class Go's parser sees.  Instants are [day, ms, ns]: days since         *)
(* 1970-01-01, millisecond of the day, nanosecond of the millisecond.      *)
(***************************************************************************)
EXTENDS Integers, Sequences, FiniteSets, TLC

VARIABLES
    record,     \* Reader.record: number of the record being read
    tz,         \* Reader.tz: timezone offset learned from record 1
    time,       \* Reader.time: the export time, [t |-> instant, zone |-> seconds]
    log,        \* history: one entry per Reader call, in order
    pc,         \* position of the single-call specifications
    args,       \* inputs of the call under a single-call specification
    out,        \* its result
    js          \* jsonutil.decode: the reader, the decoder's buffer, the loop

vars == <<record, tz, time, log, pc, args, out, js>>

Idle == [none |-> TRUE]

---------------------------------------------------------------------------
(* net/url and publicsuffix, on the strings the model uses *)

RawURLs ==
    { "https://example.com/a",
      "https://web.archive.org/save/https://medium.com/@user/article",
      "http://localhost/x",
      "https://user@sub.example.com/p",
      "about:blank",
      "https://co.uk/",
      "http://[::1" }

\* url.Parse(rawURL) returns a nil error
urlParseOK(rawURL) == rawURL # "http://[::1"

\* u.Hostname() of the parsed URL
Hostname(rawURL) ==
    CASE rawURL = "https://example.com/a" -> "example.com"
      [] rawURL = "https://web.archive.org/save/https://medium.com/@user/article"
                                          -> "web.archive.org"
      [] rawURL = "http://localhost/x" -> "localhost"
      [] rawURL = "https://user@sub.example.com/p" -> "sub.example.com"
      [] rawURL = "https://co.uk/" -> "co.uk"
      [] OTHER -> ""

\* strings.IndexByte(u.Path, '@') != -1
PathHasAt(rawURL) ==
    rawURL = "https://web.archive.org/save/https://medium.com/@user/article"

\* strings.IndexByte(rawURL, '@') != -1: an '@' anywhere in the raw URL
RawHasAt(rawURL) ==
    rawURL \in { "https://web.archive.org/save/https://medium.com/@user/article",
                 "https://user@sub.example.com/p" }

\* strings.IndexByte(host, '.') != -1
HasDot(host) ==
    host \in {"example.com", "web.archive.org", "sub.example.com", "co.uk",
              "archive.org"}

\* publicsuffix.EffectiveTLDPlusOne(host): [err, tld1]
EffectiveTLDPlusOne(host) ==
    CASE host \in {"example.com", "sub.example.com"}
                               -> [err |-> FALSE, tld1 |-> "example.com"]
      [] host \in {"web.archive.org", "archive.org"}
                               -> [err |-> FALSE, tld1 |-> "archive.org"]
      [] OTHER                 -> [err |-> TRUE, tld1 |-> ""]

---------------------------------------------------------------------------
(* checkURL *)

\* the host comparison with the '@' looked for in the whole raw URL
checkURL_AtAnywhere(rawURL, host, domain) ==
    IF host # "" /\ ~urlParseOK(rawURL) THEN "errURLParse"
    ELSE IF host # "" /\ Hostname(rawURL) # host /\ ~RawHasAt(rawURL)
         THEN "errHost"
    ELSE IF domain # "" /\ EffectiveTLDPlusOne(host).err THEN "errTLD"
    ELSE IF domain # "" /\ EffectiveTLDPlusOne(host).tld1 # domain
         THEN "errDomain"
    ELSE "nil"

checkURL(rawURL, host, domain) ==
    IF host # "" /\ ~urlParseOK(rawURL) THEN "errURLParse"
    ELSE IF host # "" /\ Hostname(rawURL) # host /\ ~PathHasAt(rawURL)
         THEN "errHost"
    ELSE IF domain # "" /\ EffectiveTLDPlusOne(host).err THEN "errTLD"
    ELSE IF domain # "" /\ EffectiveTLDPlusOne(host).tld1 # domain
         THEN "errDomain"
    ELSE "nil"

---------------------------------------------------------------------------
(* package time, on instants [day, ms, ns] *)

\* the date of the zero time.Time, 0001-01-01, in days since 1970-01-01
ZeroDay == -719162

\* milliseconds in a day
MsPerDay == 86400000

\* time.Second, in milliseconds
Second == 1000

\* time.Time{}: what time.Parse returns with an error
ZeroTime == [day |-> ZeroDay, ms |-> 0, ns |-> 0]

\* t.Add(s * time.Second)
AddSeconds(t, s) ==
    LET total == t.ms + s * Second
    IN  [day |-> t.day + (total \div MsPerDay), ms |-> total % MsPerDay,
         ns |-> t.ns]

\* t.Truncate(time.Millisecond)
Truncate(t) == [t EXCEPT !.ns = 0]

\* t.Weekday(): 0 = Sunday; 1970-01-01 was a Thursday
Weekday(t) == (t.day + 4) % 7

\* a.Sub(b): a Duration, kept as days + milliseconds + nanoseconds, and
\* saturated when a - b leaves the int64 nanosecond range
\* [-9223372036854775808, 9223372036854775807]
Sub(a, b) ==
    LET dn == a.ns - b.ns
        m1 == (a.ms - b.ms) + (dn \div 1000000)
        N  == dn % 1000000
        M  == m1 % MsPerDay
        D  == (a.day - b.day) + (m1 \div MsPerDay)
        over  == \/ D > 106751
                 \/ D = 106751 /\ M > 85636854
                 \/ D = 106751 /\ M = 85636854 /\ N > 775807
        under == \/ D < -106752
                 \/ D = -106752 /\ M < 763145
                 \/ D = -106752 /\ M = 763145 /\ N < 224192
    IN  [sat |-> over \/ under, days |-> a.day - b.day, ms |-> a.ms - b.ms,
         ns |-> dn]

\* diff % time.Second != 0; a saturated Duration is no whole number of seconds
Fractional(diff) == diff.sat \/ diff.ns # 0 \/ diff.ms % Second # 0

\* int(diff / time.Second), for a Duration that is not saturated
Seconds(diff) == diff.days * (MsPerDay \div Second) + (diff.ms \div Second)

\* a civil year of four digits, 0000-01-01 .. 9999-12-31
FourDigitYear(day) == day >= -719528 /\ day <= 2932896

\* t.Format("2006-01-02 15:04:05.000"): the text of a civil time, by what
\* time.Parse makes of it. "std": YYYY-MM-DD HH:MM:SS.mmm; "year5": a year
\* of five digits or a negative year
timeFormat(t) ==
    [kind |-> IF FourDigitYear(t.day) THEN "std" ELSE "year5",
     day |-> t.day, ms |-> t.ms]

\* time.Parse("2006-01-02 15:04:05.000", s): [err, t]. The layout's hour
\* ("15") also takes an hour of one digit (kind "hour1"); on an error the
\* Time returned is the zero Time
timeParse(s) ==
    IF s.kind \in {"std", "hour1"}
    THEN [err |-> FALSE, t |-> [day |-> s.day, ms |-> s.ms, ns |-> 0]]
    ELSE [err |-> TRUE, t |-> ZeroTime]

\* timefmt.Parse(s, timefmt.Milli, timefmt.Unix): the decimal text's whole
\* part is milliseconds since 1970-01-01 (kept as <<day, ms of day>>), its
\* fraction the part of a millisecond
timefmtParse(s) ==
    IF s.ok
    THEN [err |-> FALSE, t |-> [day |-> s.whole[1], ms |-> s.whole[2],
                                ns |-> s.frac]]
    ELSE [err |-> TRUE, t |-> ZeroTime]

\* timefmt.Format(t, timefmt.Milli, timefmt.Unix)
timefmtFormat(t) == [ok |-> TRUE, whole |-> <<t.day, t.ms>>, frac |-> t.ns]

\* strconv.Atoi(s): [err, n]
Atoi(s) ==
    CASE s = "0" -> [err |-> FALSE, n |-> 0]
      [] s = "1" -> [err |-> FALSE, n |-> 1]
      [] s = "2" -> [err |-> FALSE, n |-> 2]
      [] s = "3" -> [err |-> FALSE, n |-> 3]
      [] s = "4" -> [err |-> FALSE, n |-> 4]
      [] s = "5" -> [err |-> FALSE, n |-> 5]
      [] s = "6" -> [err |-> FALSE, n |-> 6]
      [] s = "7" -> [err |-> FALSE, n |-> 7]
      [] s = "-1" -> [err |-> FALSE, n |-> -1]
      [] s = "+1" -> [err |-> FALSE, n |-> 1]
      [] OTHER   -> [err |-> TRUE, n |-> 0]

\* strconv.Itoa(n)
Itoa(n) ==
    CASE n = 0 -> "0" [] n = 1 -> "1" [] n = 2 -> "2" [] n = 3 -> "3"
      [] n = 4 -> "4" [] n = 5 -> "5" [] n = 6 -> "6" [] n = 7 -> "7"
      [] OTHER -> "-1"

---------------------------------------------------------------------------
(* parseTimes *)

TimesErr(e) == [err |-> e, t |-> ZeroTime, offset |-> 0]

\* the weekday field compared with the weekday of the UTC instant
parseTimes_WeekdayOfInstant(timeMsec, timeLocal, weekday) ==
    LET msec  == timefmtParse(timeMsec)
        local == timeParse(timeLocal).t
        diff  == Sub(Truncate(msec.t), local)
        day   == Atoi(weekday)
    IN  IF msec.err THEN TimesErr("errMsec")
        ELSE IF Fractional(diff) THEN TimesErr("errFractional")
        ELSE IF day.err THEN TimesErr("errAtoi")
        ELSE IF Weekday(msec.t) # day.n THEN TimesErr("errWeekday")
        ELSE [err |-> "nil", t |-> msec.t, offset |-> Seconds(diff)]

\* the difference of the two times rounded to seconds and never refused
parseTimes_NoFractionCheck(timeMsec, timeLocal, weekday) ==
    LET msec  == timefmtParse(timeMsec)
        local == timeParse(timeLocal).t
        diff  == Sub(Truncate(msec.t), local)
        day   == Atoi(weekday)
    IN  IF msec.err THEN TimesErr("errMsec")
        ELSE IF diff.sat THEN TimesErr("errFractional")
        ELSE IF day.err THEN TimesErr("errAtoi")
        ELSE IF Weekday(local) # day.n THEN TimesErr("errWeekday")
        ELSE [err |-> "nil", t |-> msec.t, offset |-> Seconds(diff)]

\* parseTimes(timeMsec, timeLocal, weekday): [err, t, offset]. The error of
\* time.Parse is assigned and never read: local is then the zero Time
parseTimes(timeMsec, timeLocal, weekday) ==
    LET msec  == timefmtParse(timeMsec)
        local == timeParse(timeLocal).t
        diff  == Sub(Truncate(msec.t), local)
        day   == Atoi(weekday)
    IN  IF msec.err THEN TimesErr("errMsec")
        ELSE IF Fractional(diff) THEN TimesErr("errFractional")
        ELSE IF day.err THEN TimesErr("errAtoi")
        ELSE IF Weekday(local) # day.n THEN TimesErr("errWeekday")
        ELSE [err |-> "nil", t |-> msec.t, offset |-> Seconds(diff)]

---------------------------------------------------------------------------
(* Field texts that are no number and no time *)

\* a millisecond field that is no decimal number
BadMsecField == [ok |-> FALSE, whole |-> <<0, 0>>, frac |-> 0]

\* a local-time field that is no time at all
JunkLocalField == [kind |-> "junk", day |-> 0, ms |-> 0]

---------------------------------------------------------------------------
(* chrome.PageTransition and normalizeTitle *)

\* chrome.PageTransitionFromString(s): [err, typ]; a PageTransition is a
\* core type and qualifier bits, and the text names the core type only
PageTransitionFromString(s) ==
    IF s \in {"link", "typed", "reload"}
    THEN [err |-> FALSE, typ |-> [core |-> s, qualifiers |-> FALSE]]
    ELSE [err |-> TRUE, typ |-> [core |-> "", qualifiers |-> FALSE]]

\* PageTransition.String(): the name of the core type
PageTransitionString(typ) == typ.core

\* normalizeTitle(title): idempotent
normalizeTitle(title) ==
    IF title = " Example\n" THEN "Example" ELSE title

---------------------------------------------------------------------------
(* Reader.readAnalysisVisit *)

NoVisit == [URL |-> "", VisitTime |-> ZeroTime,
            Transition |-> [core |-> "", qualifiers |-> FALSE],
            PageTitle |-> "", nil |-> TRUE]

Visit(url, t, typ, title) ==
    [URL |-> url, VisitTime |-> t, Transition |-> typ, PageTitle |-> title,
     nil |-> FALSE]

\* the offset taken from every record read, not from record 1 alone
readAnalysisVisit_RelearnsOffset(r, f) ==
    LET cu  == checkURL(f.rawURL, f.host, f.domain)
        pt  == parseTimes(f.timeMsec, f.timeLocal, f.weekday)
        r1  == [r EXCEPT !.time = [t |-> AddSeconds(r.time.t, -pt.offset),
                                   zone |-> pt.offset],
                         !.tz = pt.offset]
        typ == PageTransitionFromString(f.transition)
    IN  IF cu # "nil" THEN [r |-> r, visit |-> NoVisit, err |-> cu]
        ELSE IF pt.err # "nil" THEN [r |-> r, visit |-> NoVisit, err |-> pt.err]
        ELSE IF typ.err
             THEN [r |-> r1, visit |-> NoVisit, err |-> "errTransition"]
        ELSE [r |-> r1, err |-> "nil",
              visit |-> Visit(f.rawURL, pt.t, typ.typ, normalizeTitle(f.title))]

\* r.readAnalysisVisit(rawURL, host, domain, timeMsec, timeLocal, weekday,
\* transition, title), f the eight fields: [r, visit, err], r the Reader
\* after the call
readAnalysisVisit(r, f) ==
    LET cu  == checkURL(f.rawURL, f.host, f.domain)
        pt  == parseTimes(f.timeMsec, f.timeLocal, f.weekday)
        \* r.time = r.time.Add(-d).In(zone); r.tz = offset
        r1  == IF r.record = 1
               THEN [r EXCEPT !.time = [t |-> AddSeconds(r.time.t, -pt.offset),
                                        zone |-> pt.offset],
                              !.tz = pt.offset]
               ELSE r
        typ == PageTransitionFromString(f.transition)
    IN  IF cu # "nil" THEN [r |-> r, visit |-> NoVisit, err |-> cu]
        ELSE IF pt.err # "nil" THEN [r |-> r, visit |-> NoVisit, err |-> pt.err]
        ELSE IF r.record # 1 /\ pt.offset # r.tz
             THEN [r |-> r, visit |-> NoVisit, err |-> "errTimezone"]
        ELSE IF typ.err
             THEN [r |-> r1, visit |-> NoVisit, err |-> "errTransition"]
        ELSE [r |-> r1, err |-> "nil",
              visit |-> Visit(f.rawURL, pt.t, typ.typ, normalizeTitle(f.title))]

---------------------------------------------------------------------------
(* Writer.writeAnalysisVisit *)

NoFields == [rawURL |-> "", host |-> "", domain |-> "",
             timeMsec |-> BadMsecField, timeLocal |-> JunkLocalField,
             weekday |-> "", transition |-> "", title |-> ""]

\* the weekday taken from the UTC instant, the local time from w.loc
writeAnalysisVisit_WeekdayOfUTC(w, v) ==
    LET host  == Hostname(v.URL)
        tld   == EffectiveTLDPlusOne(host)
        local == AddSeconds(v.VisitTime, w.loc)
    IN  IF ~urlParseOK(v.URL) THEN [err |-> "errURLParse", fields |-> NoFields]
        ELSE IF HasDot(host) /\ tld.err
             THEN [err |-> "errTLD", fields |-> NoFields]
        ELSE [err |-> "nil",
              fields |->
                [rawURL |-> v.URL,
                 host |-> host,
                 domain |-> IF HasDot(host) THEN tld.tld1 ELSE "",
                 timeMsec |-> timefmtFormat(v.VisitTime),
                 timeLocal |-> timeFormat(local),
                 weekday |-> Itoa(Weekday(v.VisitTime)),
                 transition |-> PageTransitionString(v.Transition),
                 title |-> v.PageTitle]]

\* w.writeAnalysisVisit(v): [err, fields]; w.loc is a fixed zone, in seconds
\* east of UTC, and v.VisitTime.In(w.loc) reads the instant in it
writeAnalysisVisit(w, v) ==
    LET host  == Hostname(v.URL)
        tld   == EffectiveTLDPlusOne(host)
        local == AddSeconds(v.VisitTime, w.loc)
    IN  IF ~urlParseOK(v.URL) THEN [err |-> "errURLParse", fields |-> NoFields]
        ELSE IF HasDot(host) /\ tld.err
             THEN [err |-> "errTLD", fields |-> NoFields]
        ELSE [err |-> "nil",
              fields |->
                [rawURL |-> v.URL,
                 host |-> host,
                 domain |-> IF HasDot(host) THEN tld.tld1 ELSE "",
                 timeMsec |-> timefmtFormat(v.VisitTime),
                 timeLocal |-> timeFormat(local),
                 weekday |-> Itoa(Weekday(local)),
                 transition |-> PageTransitionString(v.Transition),
                 title |-> v.PageTitle]]

---------------------------------------------------------------------------
(* The inputs of the single-call specifications *)

HostFields == {"", "example.com", "web.archive.org", "user", "localhost",
               "sub.example.com"}

DomainFields == {"", "example.com", "archive.org"}

\* 2021-06-07 (a Monday) is day 18785; 10000-01-01 is day 2932897
Instants ==
    { [day |-> 18785, ms |-> 36000000, ns |-> 0],        \* 10:00:00.000 UTC
      [day |-> 18785, ms |-> 36000041, ns |-> 754000],   \* 10:00:00.041754
      [day |-> 18785, ms |-> 36000500, ns |-> 0],        \* 10:00:00.500
      [day |-> 18785, ms |-> 82800000, ns |-> 0],        \* 23:00:00.000
      [day |-> ZeroDay, ms |-> 0, ns |-> 0],             \* 0001-01-01 00:00
      [day |-> ZeroDay, ms |-> 3600000, ns |-> 0],       \* 0001-01-01 01:00
      [day |-> 2932897, ms |-> 0, ns |-> 0] }            \* 10000-01-01 00:00

TimeMsecFields == {BadMsecField} \cup {timefmtFormat(t) : t \in Instants}

TimeLocalFields ==
    { [kind |-> "std", day |-> 18785, ms |-> 36000000],    \* 2021-06-07 10:00:00.000
      [kind |-> "std", day |-> 18785, ms |-> 36000041],    \* 2021-06-07 10:00:00.041
      [kind |-> "std", day |-> 18785, ms |-> 14400041],    \* 2021-06-07 04:00:00.041
      [kind |-> "std", day |-> 18786, ms |-> 3600000],     \* 2021-06-08 01:00:00.000
      [kind |-> "std", day |-> ZeroDay, ms |-> 0],         \* 0001-01-01 00:00:00.000
      [kind |-> "hour1", day |-> 18785, ms |-> 32400000],  \* 2021-06-07 9:00:00.000
      [kind |-> "year5", day |-> 2932897, ms |-> 0],       \* 10000-01-01 00:00:00.000
      JunkLocalField }

WeekdayFields == {"0", "1", "2", "6", "7", "-1", "+1", "x", ""}

NoReader == record = 0 /\ tz = 0 /\ time = Idle /\ log = <<>>

NoJSON == js = Idle

---------------------------------------------------------------------------
(* SpecCheckURL: one call of checkURL on any of the inputs *)

InitCheckURL ==
    /\ NoReader /\ NoJSON
    /\ pc = "call"
    /\ args \in [rawURL : RawURLs, host : HostFields, domain : DomainFields]
    /\ out = Idle

CallCheckURL ==
    /\ pc = "call"
    /\ out' = [err |-> checkURL(args.rawURL, args.host, args.domain)]
    /\ pc' = "done"
    /\ UNCHANGED <<record, tz, time, log, args, js>>

SpecCheckURL == InitCheckURL /\ [][CallCheckURL]_vars

\* the host comparison of checkURL let the record through
HostCheckPasses == out.err \notin {"errURLParse", "errHost"}

\* C4: with a non-empty host field and a URL that parses, checkURL's host
\* check passes exactly when the host field equals the URL's hostname or the
\* URL's path holds an '@': a mismatch is tolerated if and only if the path
\* holds an '@', and an equal host always passes.
C4_HostCheck ==
    (pc = "done" /\ args.host # "" /\ urlParseOK(args.rawURL))
        => (HostCheckPasses <=>
                (Hostname(args.rawURL) = args.host \/ PathHasAt(args.rawURL)))

C4_Witness ==
    /\ pc = "done" /\ args.host # "" /\ urlParseOK(args.rawURL)
    /\ Hostname(args.rawURL) # args.host
    /\ PathHasAt(args.rawURL)
    /\ out.err = "nil"

\* C5: checkURL fails for every URL field that does not parse, whatever the
\* host and domain fields are, the empty ones included.
C5_UnparsableURLFails ==
    (pc = "done" /\ ~urlParseOK(args.rawURL)) => out.err # "nil"

---------------------------------------------------------------------------
(* SpecParseTimes: one call of parseTimes on any of the inputs *)

InitParseTimes ==
    /\ NoReader /\ NoJSON
    /\ pc = "call"
    /\ args \in [timeMsec : TimeMsecFields, timeLocal : TimeLocalFields,
                 weekday : WeekdayFields]
    /\ out = Idle

CallParseTimes ==
    /\ pc = "call"
    /\ out' = parseTimes(args.timeMsec, args.timeLocal, args.weekday)
    /\ pc' = "done"
    /\ UNCHANGED <<record, tz, time, log, args, js>>

SpecParseTimes == InitParseTimes /\ [][CallParseTimes]_vars

\* the local-time field is a text time.Parse reads as a civil time
LocalParses == args.timeLocal.kind \in {"std", "hour1"}

\* the civil time the local-time field spells, read as if UTC
LocalValue == [day |-> args.timeLocal.day, ms |-> args.timeLocal.ms, ns |-> 0]

\* C6: parseTimes fails for every local-time field that is not of the form
\* YYYY-MM-DD HH:MM:SS.mmm, whatever the millisecond and weekday fields are.
C6_MalformedLocalFails ==
    (pc = "done" /\ args.timeLocal.kind # "std") => out.err # "nil"

\* C7: parseTimes accepts a record only if its weekday field is a number in
\* 0..6 (0 = Sunday) that is the weekday of the local-time field's calendar
\* date: a non-numeric weekday, one outside 0..6 and one naming another day
\* than the local date all fail.
C7_Weekday ==
    (pc = "done" /\ out.err = "nil")
        => /\ ~Atoi(args.weekday).err
           /\ Atoi(args.weekday).n \in 0..6
           /\ LocalParses => Atoi(args.weekday).n = (args.timeLocal.day + 4) % 7

\* accepted, with the local date a day later than the UTC date
C7_Witness ==
    /\ pc = "done" /\ out.err = "nil"
    /\ LocalParses
    /\ args.timeLocal.day # args.timeMsec.whole[1]

\* C8: parseTimes refuses every record whose millisecond field, cut to the
\* millisecond, and local-time field (read as UTC) are not a whole number of
\* seconds apart; for a record it accepts, the instant returned is the
\* millisecond field's and the offset O returned satisfies
\* truncate(instant, 1ms) = local time + O seconds.
C8_WholeSecondOffset ==
    pc = "done" =>
        /\ ( /\ args.timeMsec.ok /\ LocalParses
             /\ (args.timeMsec.whole[2] - args.timeLocal.ms) % 1000 # 0 )
               => out.err # "nil"
        /\ out.err = "nil" =>
               /\ out.t = [day |-> args.timeMsec.whole[1],
                           ms |-> args.timeMsec.whole[2],
                           ns |-> args.timeMsec.frac]
               /\ LocalParses =>
                      [out.t EXCEPT !.ns = 0] = AddSeconds(LocalValue, out.offset)

\* accepted with a sub-millisecond instant and an offset other than zero
C8_Witness ==
    /\ pc = "done" /\ out.err = "nil"
    /\ LocalParses
    /\ args.timeMsec.frac # 0
    /\ out.offset # 0

---------------------------------------------------------------------------
(* SpecRoundTrip: a Visit written by a Writer, then read as the first      *)
(* record of a fresh Reader                                                *)

\* Writer.loc: fixed zones, in seconds east of UTC
Locations == {0, -21600, 19800, 3600}

\* the export time a Reader starts with, taken as UTC: 2021-06-12 12:00
ExportTimes == { [t |-> [day |-> 18790, ms |-> 43200000, ns |-> 0], zone |-> 0] }

Transitions == { [core |-> "link", qualifiers |-> FALSE],
                 [core |-> "typed", qualifiers |-> FALSE],
                 [core |-> "link", qualifiers |-> TRUE] }

Titles == {"", "Example", " Example\n"}

Visits == { Visit(u, t, typ, title) :
              u \in RawURLs, t \in Instants, typ \in Transitions,
              title \in Titles }

InitRoundTrip ==
    /\ record = 0 /\ tz = 0 /\ time \in ExportTimes /\ log = <<>>
    /\ NoJSON
    /\ pc = "write"
    /\ args \in [v : Visits, loc : Locations]
    /\ out = Idle

WriteVisit ==
    /\ pc = "write"
    /\ LET w == writeAnalysisVisit([loc |-> args.loc], args.v)
       IN  /\ out' = [w |-> w, back |-> [visit |-> NoVisit, err |-> ""]]
           /\ pc' = IF w.err = "nil" THEN "read" ELSE "done"
    /\ UNCHANGED <<record, tz, time, log, args, js>>

ReadBack ==
    /\ pc = "read"
    /\ LET res == readAnalysisVisit(
                      [record |-> record + 1, tz |-> tz, time |-> time],
                      out.w.fields)
       IN  /\ record' = res.r.record
           /\ tz' = res.r.tz
           /\ time' = res.r.time
           /\ out' = [out EXCEPT !.back = [visit |-> res.visit, err |-> res.err]]
    /\ pc' = "done"
    /\ UNCHANGED <<log, args, js>>

NextRoundTrip == WriteVisit \/ ReadBack

SpecRoundTrip == InitRoundTrip /\ [][NextRoundTrip]_vars

\* the Visit is one the round trip is stated for, and it was written
RoundTripCase ==
    /\ pc = "done" /\ out.w.err = "nil"
    /\ ~PathHasAt(args.v.URL)
    /\ normalizeTitle(args.v.PageTitle) = args.v.PageTitle
    /\ ~args.v.Transition.qualifiers

\* C2 as stated: every such Visit, written in any fixed zone and read as
\* the first record of a fresh Reader, comes back equal.
C2_RoundTripAnyVisit ==
    RoundTripCase => (out.back.err = "nil" /\ out.back.visit = args.v)

\* C2: a Visit (no '@' in the URL's path, title normalized, a core
\* transition) whose visit time, read in the Writer's zone, falls in a year
\* of four digits (0000..9999), written and then read as the first record of
\* a fresh Reader, comes back equal: same URL, same instant to the
\* nanosecond, same transition, same title.
C2_RoundTrip ==
    (RoundTripCase /\ FourDigitYear(AddSeconds(args.v.VisitTime, args.loc).day))
        => (out.back.err = "nil" /\ out.back.visit = args.v)

\* a sub-millisecond instant, written in a zone whose date differs from
\* the UTC date, read back equal
C2_Witness ==
    /\ RoundTripCase
    /\ args.v.VisitTime.ns # 0
    /\ args.loc # 0
    /\ out.back.err = "nil" /\ out.back.visit = args.v

---------------------------------------------------------------------------
(* Spec: one Reader, reading the records of one export in order *)

\* the most records read in one session
MaxRecords == 3

\* records as the exporting extension writes them, in three zones
WrittenRecords ==
    { writeAnalysisVisit([loc |-> loc], Visit(u, t, typ, "Example")).fields :
        u \in {"https://example.com/a"},
        t \in { [day |-> 18785, ms |-> 36000041, ns |-> 754000],
                [day |-> 18785, ms |-> 82800000, ns |-> 0] },
        typ \in { [core |-> "link", qualifiers |-> FALSE] },
        loc \in {0, -21600, 3600} }

\* a written record: 2021-06-07 10:00:00.041754 UTC, 04:00:00.041 local
BaseRecord ==
    writeAnalysisVisit([loc |-> -21600],
        Visit("https://example.com/a",
              [day |-> 18785, ms |-> 36000041, ns |-> 754000],
              [core |-> "link", qualifiers |-> FALSE], "Example")).fields

\* the written record with one field spoiled
SpoiledRecords ==
    { [BaseRecord EXCEPT !.host = "user"],
      [BaseRecord EXCEPT !.domain = "archive.org"],
      [BaseRecord EXCEPT !.rawURL = "http://[::1", !.host = "", !.domain = ""],
      [BaseRecord EXCEPT !.rawURL = "http://[::1"],
      [BaseRecord EXCEPT !.timeMsec = BadMsecField],
      [BaseRecord EXCEPT !.timeLocal = JunkLocalField],
      [BaseRecord EXCEPT !.timeLocal.ms = 14400541],
      [BaseRecord EXCEPT !.weekday = "0"],
      [BaseRecord EXCEPT !.weekday = "x"],
      [BaseRecord EXCEPT !.transition = "bogus"],
      [BaseRecord EXCEPT !.title = " Example\n"] }

Records == WrittenRecords \cup SpoiledRecords

Init ==
    /\ record = 0
    /\ tz = 0
    /\ time \in ExportTimes
    /\ log = <<>>
    /\ pc = "read" /\ args = Idle /\ out = Idle
    /\ NoJSON

\* Reader.Read, for an analysis export: the record counter is advanced and
\* the record's eight fields go to readAnalysisVisit
Read(f) ==
    /\ record < MaxRecords
    /\ LET res == readAnalysisVisit(
                      [record |-> record + 1, tz |-> tz, time |-> time], f)
       IN  /\ record' = res.r.record
           /\ tz' = res.r.tz
           /\ time' = res.r.time
           /\ log' = Append(log, [f |-> f, err |-> res.err,
                                  visit |-> res.visit, time |-> time])
    /\ UNCHANGED <<pc, args, out, js>>

Next == \E f \in Records : Read(f)

Spec == Init /\ [][Next]_vars

\* record i got through checkURL and parseTimes: its offset is resolved
Resolved(i) ==
    /\ checkURL(log[i].f.rawURL, log[i].f.host, log[i].f.domain) = "nil"
    /\ log[i].f.timeMsec.ok
    /\ log[i].err \notin {"errFractional", "errAtoi", "errWeekday"}

\* the offset record i resolves to: UTC instant, cut to the millisecond,
\* minus the local time, in seconds
OffsetOf(i) ==
    (log[i].f.timeMsec.whole[1] - log[i].f.timeLocal.day) * 86400
      + (log[i].f.timeMsec.whole[2] - log[i].f.timeLocal.ms) \div 1000

\* C1: the offset is learned from record 1 alone and stays: once record 1
\* has resolved an offset, r.tz is that offset for good; a later record is
\* accepted only if it resolves to r.tz; a later record that resolves to
\* another offset fails right there with the timezone error, and every
\* record before it that resolved to record 1's offset has had its Visit
\* returned.
C1_OffsetLearnedOnce ==
    /\ (Len(log) >= 1 /\ Resolved(1)) => tz = OffsetOf(1)
    /\ \A j \in 2..Len(log) :
         /\ log[j].err = "nil" => (Resolved(j) /\ OffsetOf(j) = tz)
         /\ (Resolved(j) /\ OffsetOf(j) # tz) =>
                (log[j].err = "errTimezone" /\ log[j].visit.nil)
         /\ (Resolved(1) /\ log[j].err = "errTimezone") =>
                \A i \in 1..(j - 1) :
                    ( /\ Resolved(i) /\ OffsetOf(i) = OffsetOf(1)
                      /\ ~PageTransitionFromString(log[i].f.transition).err )
                       => (~log[i].visit.nil /\ log[i].visit.URL = log[i].f.rawURL)

\* records 1 and 2 share an offset and are returned; record 3 has another
\* offset and fails with the timezone error
C1_Witness ==
    /\ Len(log) = 3
    /\ log[1].err = "nil" /\ log[2].err = "nil"
    /\ OffsetOf(2) # 0
    /\ log[3].err = "errTimezone"
    /\ Resolved(3) /\ OffsetOf(3) # OffsetOf(1)

ConsistencyErrors ==
    {"errHost", "errDomain", "errWeekday", "errFractional", "errTimezone"}

\* C3: the session fails closed: after a call that failed on a consistency
\* check (host, domain, weekday, fractional difference, timezone), no later
\* call on the same Reader returns a Visit.
C3_FailsClosed ==
    \A i, j \in 1..Len(log) :
        (i < j /\ log[i].err \in ConsistencyErrors) => log[j].err # "nil"

\* the civil time at which instant t reads in the fixed zone `zone`
ReadsAs(t, zone) ==
    LET l == AddSeconds(t, zone) IN [day |-> l.day, ms |-> l.ms]

\* C10: once record 1 is decoded, the export time is in the export's local
\* zone: its zone is the one in which record 1's instant reads as record 1's
\* local-time field, and its instant is the first export time moved by
\* minus the learned offset.
C10_ExportTimeInLocalZone ==
    (Len(log) >= 1 /\ log[1].err = "nil") =>
        /\ ReadsAs(log[1].visit.VisitTime, time.zone)
             = [day |-> log[1].f.timeLocal.day, ms |-> log[1].f.timeLocal.ms]
        /\ time.t = AddSeconds(log[1].time.t, -tz)

---------------------------------------------------------------------------
(* jsonutil.Decode, jsonutil.DecodeFile and decode                         *)
(*                                                                         *)
(* js.tail is what the reader holds after the first JSON value; js.rest is *)
(* the part of it the reader has not delivered yet, js.buffered the part   *)
(* json.Decoder read past the value (d.Buffered()).  A Read of the reader  *)
(* returns n bytes and nil, io.EOF or another error.                       *)

\* len(buf) in decode
BufSize == 4096

\* the most bytes after the JSON value
MaxTrail == 2

\* space, tab, LF, CR, vertical tab, 'x'
Bytes == {32, 9, 10, 13, 11, 120}

isSpace(c) == c <= 32 /\ (c = 32 \/ c = 9 \/ c = 13 \/ c = 10)

Tails == UNION { [1..n -> Bytes] : n \in 0..MaxTrail }

Drop(q, k) == SubSeq(q, k + 1, Len(q))

\* for _, b := range buf[:n] { if !isSpace(b) ... }
HasNonSpace(chunk) == \E i \in 1..Len(chunk) : ~isSpace(chunk[i])

InitJSON ==
    /\ NoReader
    /\ pc = "json" /\ args = Idle /\ out = Idle
    /\ \E fn \in {"Decode", "DecodeFile"}, tail \in Tails :
         js = [pc |-> IF fn = "Decode" THEN "decode" ELSE "open",
               fn |-> fn,
               readAll |-> (fn = "Decode"),
               tail |-> tail,
               buffered |-> <<>>,
               rest |-> tail,
               rstate |-> "open",
               ret |-> ""]

\* DecodeFile: os.Open(filename) returns the file or an error
DecodeFile(ok) ==
    /\ js.pc = "open"
    /\ js' = IF ok THEN [js EXCEPT !.pc = "decode"]
                   ELSE [js EXCEPT !.pc = "done", !.ret = "errOpen"]
    /\ UNCHANGED <<record, tz, time, log, pc, args, out>>

\* after a result is fixed: io.Copy(io.Discard, r) if readAll, then return
Return(j, ret) ==
    [j EXCEPT !.ret = ret, !.pc = IF j.readAll THEN "drain" ELSE "done"]

\* d.Decode(v): the decoder reads the value, and k bytes past it, from r;
\* eof: the reader returned io.EOF with the last of them. A value that is
\* malformed or cut short is an error
DecodeValue(ok, k, eof) ==
    /\ js.pc = "decode"
    /\ k \in 0..Len(js.rest)
    /\ eof => k = Len(js.rest)
    /\ LET j == [js EXCEPT !.buffered = SubSeq(js.rest, 1, k),
                           !.rest = Drop(js.rest, k),
                           !.rstate = IF eof THEN "eof" ELSE "open"]
       IN  js' = IF ok THEN [j EXCEPT !.pc = "loop"] ELSE Return(j, "errValue")
    /\ UNCHANGED <<record, tz, time, log, pc, args, out>>

\* the reader r may return n bytes with error e from a Read
CanRead(n, e) ==
    /\ e \in {"nil", "EOF", "err"}
    /\ n \in 0..Len(js.rest)
    /\ n <= BufSize
    /\ js.rstate = "open" => (e = "EOF" => n = Len(js.rest))
    /\ js.rstate = "eof" => (n = 0 /\ e = "EOF")
    /\ js.rstate = "broken" => (n = 0 /\ e = "err")

\* the reader after that Read
AfterRead(j, n, e) ==
    [j EXCEPT !.rest = Drop(j.rest, n),
              !.rstate = CASE e = "EOF" -> "eof"
                           [] e = "err" -> "broken"
                           [] OTHER -> j.rstate]

\* the loop body of decode on the bytes and the error br.Read returned:
\* io.EOF returns nil before the bytes are looked at
LoopBody(j, chunk, e) ==
    IF e = "EOF" THEN [j EXCEPT !.ret = "nil", !.pc = "done"]
    ELSE IF HasNonSpace(chunk) THEN Return(j, "errTrailing")
    ELSE j

\* br.Read while d.Buffered() holds bytes: the MultiReader returns them, nil
LoopBuffered ==
    /\ js.pc = "loop"
    /\ js.buffered # <<>>
    /\ LET n == IF Len(js.buffered) <= BufSize THEN Len(js.buffered) ELSE BufSize
       IN  js' = LoopBody([js EXCEPT !.buffered = Drop(js.buffered, n)],
                          SubSeq(js.buffered, 1, n), "nil")
    /\ UNCHANGED <<record, tz, time, log, pc, args, out>>

\* br.Read once d.Buffered() is empty: the MultiReader passes on what r.Read
\* returns, a final (n, io.EOF) included
LoopRead(n, e) ==
    /\ js.pc = "loop"
    /\ js.buffered = <<>>
    /\ CanRead(n, e)
    /\ js' = LoopBody(AfterRead(js, n, e), SubSeq(js.rest, 1, n), e)
    /\ UNCHANGED <<record, tz, time, log, pc, args, out>>

\* io.Copy(io.Discard, r): reads r until io.EOF or an error
DrainRead(n, e) ==
    /\ js.pc = "drain"
    /\ CanRead(n, e)
    /\ js' = [AfterRead(js, n, e) EXCEPT !.pc = IF e = "nil" THEN "drain" ELSE "done"]
    /\ UNCHANGED <<record, tz, time, log, pc, args, out>>

NextJSON ==
    \/ \E ok \in BOOLEAN : DecodeFile(ok)
    \/ \E ok \in BOOLEAN, k \in 0..MaxTrail + 1, eof \in BOOLEAN :
           DecodeValue(ok, k, eof)
    \/ LoopBuffered
    \/ \E n \in 0..MaxTrail + 1, e \in {"nil", "EOF", "err"} : LoopRead(n, e)
    \/ \E n \in 0..MaxTrail + 1, e \in {"nil", "EOF", "err"} : DrainRead(n, e)

SpecJSON == InitJSON /\ [][NextJSON]_vars

\* C9: Decode returns nil only when every byte after the JSON value is
\* space, tab, CR or LF: a byte of any other kind makes it return an error,
\* however the reader hands the bytes over.
C9_TrailingTextRejected ==
    (js.fn = "Decode" /\ js.pc = "done" /\ js.ret = "nil")
        => \A i \in 1..Len(js.tail) : isSpace(js.tail[i])

\* the trailing-text loop is at br.Read with d.Buffered() used up, and
\* whatever the reader can return leaves decode where it is: the loop goes
\* round for ever
LoopSpins ==
    /\ js.pc = "loop"
    /\ js.buffered = <<>>
    /\ \A n \in 0..MaxTrail + 1, e \in {"nil", "EOF", "err"} :
         CanRead(n, e) =>
             LoopBody(AfterRead(js, n, e), SubSeq(js.rest, 1, n), e) = js

\* io.Copy(io.Discard, r) is at r.Read and whatever the reader can return
\* leaves it there
DrainSpins ==
    /\ js.pc = "drain"
    /\ \A n \in 0..MaxTrail + 1, e \in {"nil", "EOF", "err"} :
         CanRead(n, e) =>
             [AfterRead(js, n, e) EXCEPT
                  !.pc = IF e = "nil" THEN "drain" ELSE "done"] = js

\* C11: Decode and DecodeFile always terminate: once the JSON value is
\* decoded, the trailing-text loop (and the draining of the reader) is
\* never where no Read the reader can still return gets it any further, a
\* reader that keeps returning a non-EOF error included.
C11_AlwaysTerminates == ~LoopSpins /\ ~DrainSpins

=============================================================================
